---- MODULE Spec2Model ----
\* Connection lifecycle of examples/trouble/src/main.rs: startup, the
\* advertise-and-serve loop (app_task), the per-connection race of
\* gatt_events_task and custom_task, and the host runner (ble_task).
EXTENDS Integers, Sequences, FiniteSets, TLC

VARIABLES
    process,    \* "running" | "panicked" (panic!/expect) | "returned" (main returned)
    panic,      \* message of the panic that halted the process, "none" otherwise
    main_pc,    \* position of main/run/app_task
    runner,     \* ble_task: "idle" (not yet polled) | "running" | "ended"
    name_len,   \* length in bytes of the name app_task passes to advertise
    next_conn,  \* number of connections advertise has returned so far
    session,    \* conn id -> state of the select(a, b) of that connection
    last_end,   \* how the most recent select(a, b) resolved; cleared by the next accept
    level,      \* value of battery_service.level in the server's attribute table
    status,     \* value of battery_service.status in the server's attribute table
    gatt_log    \* lines gatt_events_task has logged for the event it took last

vars == <<process, panic, main_pc, runner, name_len, next_conn, session,
          last_end, level, status, gatt_log>>

----------------------------------------------------------------------------
\* Bounds of the model.
MaxConns == 2       \* connections accepted in one run
MaxEvents == 2      \* GATT requests arriving on one connection
OversizeName == 23  \* a name too long for the advertising buffer
MaxPushes == 257    \* pushes of custom_task on one connection
MaxNameLen == 24    \* longest name tried on advertise
MaxFairPushes == 40 \* pushes per connection in the runs checked for liveness

\* Program constants.
CONNECTIONS_MAX == 1
LOCAL_NAME_LEN == 15     \* "Trouble Example"
ADV_DATA_LEN == 31       \* advertiser_data = [0; 31]
U8_MOD == 256            \* tick: u8
TIMER_SECS == 2          \* Timer::after_secs(2)

\* Handles of the two characteristics of BatteryService.
LevelHandle == "level"
StatusHandle == "status"
NoHandle == "-"
Handles == {LevelHandle, StatusHandle}
Readable == {LevelHandle, StatusHandle}
Writable == {StatusHandle}

\* Values a remote write carries for the bool characteristic.
WriteData == {<<0>>, <<1>>}

\* Result of data.process(server): Ok(Some(Read)), Ok(Some(Write)), Ok(_), Err(e).
NoGattEvent == [kind |-> "-", handle |-> NoHandle, data |-> <<>>]
GattEvents ==
    {[kind |-> "Read", handle |-> h, data |-> <<>>] : h \in Readable}
    \cup {[kind |-> "Write", handle |-> h, data |-> d] : h \in Writable, d \in WriteData}
    \cup {[kind |-> "None", handle |-> NoHandle, data |-> <<>>],
          [kind |-> "Error", handle |-> NoHandle, data |-> <<>>]}

\* ConnectionEvent on the stream of connection c, numbered in arrival order.
NoEvent == [conn |-> 0, seq |-> 0, kind |-> "-"]
ConnectionEvent(c, n, k) == [conn |-> c, seq |-> n, kind |-> k]

NoEnd == [conn |-> 0, cause |-> "-", loser_pc |-> "-", lost |-> 0, taken |-> 0,
          event |-> NoGattEvent]

\* A log line of gatt_events_task.
LogLine(m, h, d) == [msg |-> m, handle |-> h, data |-> d]

----------------------------------------------------------------------------
\* AdStructure::encode_slice into advertiser_data: each field is a length
\* byte, a type byte and its payload: Flags (1), one Uuid16 (2), the name.
EncodedLen(n) == (2 + 1) + (2 + 2) + (2 + n)
\* Mutant of EncodeOk: the last byte of the buffer is not usable.
EncodeOk_strict(n) == EncodedLen(n) < ADV_DATA_LEN

EncodeOk(n) == EncodedLen(n) <= ADV_DATA_LEN

Panic(msg) ==
    /\ process' = "panicked"
    /\ panic' = msg

\* Mutant of custom_loop_head: tick.saturating_add(1).
custom_loop_head_saturating(s) ==
    [s EXCEPT !.tick = IF s.tick + 1 < U8_MOD THEN s.tick + 1 ELSE s.tick,
              !.pushes = s.pushes + 1, !.custom_pc = "notify"]

\* custom_task from the head of its loop up to the await of level.notify:
\* tick = tick.wrapping_add(1), then the push of tick on level (pushes
\* counts the pushes issued on the connection).
custom_loop_head(s) ==
    [s EXCEPT !.tick = (s.tick + 1) % U8_MOD, !.pushes = s.pushes + 1,
              !.custom_pc = "notify"]

\* Mutant of new_session: the events a dropped connection left pending show
\* up on the stream of the next one.
new_session_stale(c) ==
    custom_loop_head(
        [gatt_pc |-> "next", data |-> NoEvent,
         events |-> [i \in 1..last_end.lost |->
                        ConnectionEvent(last_end.conn, last_end.taken + i, "Gatt")],
         taken |-> 0, link_up |-> TRUE, event |-> NoGattEvent,
         custom_pc |-> "start", tick |-> 0, pushes |-> 0, timer |-> 0])

\* The futures a and b of a fresh connection c, polled once by select.
new_session(c) ==
    custom_loop_head(
        [gatt_pc |-> "next", data |-> NoEvent, events |-> <<>>, taken |-> 0,
         link_up |-> TRUE, event |-> NoGattEvent,
         custom_pc |-> "start", tick |-> 0, pushes |-> 0, timer |-> 0])

NoSession == [d \in {} |-> NoEnd]

Finished(s) == s.gatt_pc = "finished"

\* Mutant of Exited: custom_task returns when its wait is over.
Exited_after_wait(s) ==
    \/ s.custom_pc \in {"notify_failed", "rssi_failed"}
    \/ s.custom_pc = "timer" /\ s.timer = 0

Exited(s) == s.custom_pc \in {"notify_failed", "rssi_failed"}

----------------------------------------------------------------------------
Init ==
    /\ process = "running"
    /\ panic = "none"
    /\ main_pc = "init"
    /\ runner = "idle"
    /\ name_len = LOCAL_NAME_LEN
    /\ next_conn = 0
    /\ session = NoSession
    /\ last_end = NoEnd
    /\ level = 0
    /\ status = FALSE
    /\ gatt_log = <<>>

\* The same program with advertise called with either the name app_task
\* passes or an oversized one.
InitName ==
    /\ process = "running"
    /\ panic = "none"
    /\ main_pc = "init"
    /\ runner = "idle"
    /\ name_len \in {LOCAL_NAME_LEN, OversizeName}
    /\ next_conn = 0
    /\ session = NoSession
    /\ last_end = NoEnd
    /\ level = 0
    /\ status = FALSE
    /\ gatt_log = <<>>

\* advertise called with a name of any length up to MaxNameLen.
InitAnyName ==
    /\ process = "running"
    /\ panic = "none"
    /\ main_pc = "init"
    /\ runner = "idle"
    /\ name_len \in 0..MaxNameLen
    /\ next_conn = 0
    /\ session = NoSession
    /\ last_end = NoEnd
    /\ level = 0
    /\ status = FALSE
    /\ gatt_log = <<>>

----------------------------------------------------------------------------
\* main: board.ble.init(..).expect(..), then spawn mpsl_task and call run.
main_init(ok) ==
    /\ process = "running"
    /\ main_pc = "init"
    /\ IF ok
       THEN /\ main_pc' = "server"
            /\ UNCHANGED <<process, panic>>
       ELSE /\ Panic("BLE Stack failed to initialize")
            /\ UNCHANGED main_pc
    /\ UNCHANGED <<runner, name_len, next_conn, session, last_end, level, status,
                   gatt_log>>

\* run: build the host, Server::new_with_config(..).expect(..), then poll
\* select(ble_task(runner), app_task) for the first time.
run_setup(ok) ==
    /\ process = "running"
    /\ main_pc = "server"
    /\ IF ok
       THEN /\ main_pc' = "advertise"
            /\ runner' = "running"
            /\ UNCHANGED <<process, panic>>
       ELSE /\ Panic("Failed to create GATT server")
            /\ UNCHANGED <<main_pc, runner>>
    /\ UNCHANGED <<name_len, next_conn, session, last_end, level, status, gatt_log>>

\* Mutant of advertise_encode: the result of encode_slice is ignored.
advertise_encode_unchecked ==
    /\ process = "running"
    /\ main_pc = "advertise"
    /\ main_pc' = "adv_start"
    /\ UNCHANGED <<process, panic, runner, name_len, next_conn, session, last_end,
                   level, status, gatt_log>>

\* advertise, up to the await of peripheral.advertise: encode_slice(..)?
\* returns the encoding error to app_task, which panics.
advertise_encode ==
    /\ process = "running"
    /\ main_pc = "advertise"
    /\ IF EncodeOk(name_len)
       THEN /\ main_pc' = "adv_start"
            /\ UNCHANGED <<process, panic>>
       ELSE /\ Panic("[adv] error: Encoding")
            /\ UNCHANGED main_pc
    /\ UNCHANGED <<runner, name_len, next_conn, session, last_end, level, status,
                   gatt_log>>

\* peripheral.advertise(..).await? completes.
advertise_start(ok) ==
    /\ process = "running"
    /\ main_pc = "adv_start"
    /\ IF ok
       THEN /\ main_pc' = "accept"
            /\ UNCHANGED <<process, panic>>
       ELSE /\ Panic("[adv] error: Host")
            /\ UNCHANGED main_pc
    /\ UNCHANGED <<runner, name_len, next_conn, session, last_end, level, status,
                   gatt_log>>

\* Mutant of accept_conn: a and b are started but not awaited, app_task goes
\* straight back to advertise.
accept_conn_spawn(c) ==
    /\ session' = (c :> new_session(c)) @@ session
    /\ level' = new_session(c).tick
    /\ next_conn' = c
    /\ main_pc' = "advertise"
    /\ last_end' = NoEnd
    /\ gatt_log' = <<>>

\* advertiser.accept().await? returns Ok(conn): app_task builds a and b and
\* polls select(a, b); b runs to its first await, pushing tick 1.
accept_conn(c) ==
    /\ session' = (c :> new_session(c)) @@ session
    /\ level' = new_session(c).tick
    /\ next_conn' = c
    /\ main_pc' = "select"
    /\ last_end' = NoEnd
    /\ gatt_log' = <<>>

\* Mutant of accept: a failed accept is retried instead of returned.
accept_retry(ok) ==
    /\ process = "running"
    /\ main_pc = "accept"
    /\ IF ok
       THEN /\ next_conn < MaxConns
            /\ accept_conn(next_conn + 1)
       ELSE /\ main_pc' = "advertise"
            /\ UNCHANGED <<next_conn, session, last_end, level, gatt_log>>
    /\ UNCHANGED <<process, panic, runner, name_len, status>>

\* advertise returns at accept: Ok(conn) starts the session, Err(e) panics.
accept(ok) ==
    /\ process = "running"
    /\ main_pc = "accept"
    /\ IF ok
       THEN /\ next_conn < MaxConns
            /\ accept_conn(next_conn + 1)
            /\ UNCHANGED <<process, panic>>
       ELSE /\ Panic("[adv] error: Host")
            /\ UNCHANGED <<main_pc, next_conn, session, last_end, level, gatt_log>>
    /\ UNCHANGED <<runner, name_len, status>>

----------------------------------------------------------------------------
\* Mutant of select_resolved: a and b outlive the select that returned.
select_keep(c, s) ==
    /\ session' = [session EXCEPT ![c] = s]
    /\ last_end' = [conn |-> c,
                    cause |-> IF Finished(s) THEN "disconnected" ELSE s.custom_pc,
                    loser_pc |-> IF Finished(s) THEN s.custom_pc ELSE s.gatt_pc,
                    lost |-> Len(s.events),
                    taken |-> s.taken,
                    event |-> s.event]
    /\ main_pc' = "advertise"

\* Mutant of select_resolved: app_task sleeps between two sessions.
select_backoff(c, s) ==
    /\ session' = [d \in DOMAIN session \ {c} |-> session[d]]
    /\ last_end' = [conn |-> c,
                    cause |-> IF Finished(s) THEN "disconnected" ELSE s.custom_pc,
                    loser_pc |-> IF Finished(s) THEN s.custom_pc ELSE s.gatt_pc,
                    lost |-> Len(s.events),
                    taken |-> s.taken,
                    event |-> s.event]
    /\ main_pc' = "backoff"

\* Mutant of select_resolved: app_task leaves its loop after the session.
select_break(c, s) ==
    /\ session' = [d \in DOMAIN session \ {c} |-> session[d]]
    /\ last_end' = [conn |-> c,
                    cause |-> IF Finished(s) THEN "disconnected" ELSE s.custom_pc,
                    loser_pc |-> IF Finished(s) THEN s.custom_pc ELSE s.gatt_pc,
                    lost |-> Len(s.events),
                    taken |-> s.taken,
                    event |-> s.event]
    /\ main_pc' = "done"

\* select(a, b) returns as soon as a or b is ready: conn, a and b are dropped
\* and app_task loops back to advertise. s is the state of connection c at
\* that point.
select_resolved(c, s) ==
    /\ session' = [d \in DOMAIN session \ {c} |-> session[d]]
    /\ last_end' = [conn |-> c,
                    cause |-> IF Finished(s) THEN "disconnected" ELSE s.custom_pc,
                    loser_pc |-> IF Finished(s) THEN s.custom_pc ELSE s.gatt_pc,
                    lost |-> Len(s.events),
                    taken |-> s.taken,
                    event |-> s.event]
    /\ main_pc' = "advertise"

\* Mutant of poll_select: join(a, b), which waits for both futures.
poll_join(c, s) ==
    IF Finished(s) /\ Exited(s)
    THEN select_resolved(c, s)
    ELSE /\ session' = [session EXCEPT ![c] = s]
         /\ UNCHANGED <<main_pc, last_end>>

\* One poll of select(a, b) that left connection c in state s.
poll_select(c, s) ==
    IF Finished(s) \/ Exited(s)
    THEN select_resolved(c, s)
    ELSE /\ session' = [session EXCEPT ![c] = s]
         /\ UNCHANGED <<main_pc, last_end>>

----------------------------------------------------------------------------
\* Mutant of gatt_next: the newest event of the stream is taken first.
gatt_next_newest(c) ==
    /\ process = "running"
    /\ c \in DOMAIN session
    /\ LET s == session[c] IN
       /\ s.gatt_pc = "next"
       /\ s.events # <<>>
       /\ LET e == s.events[Len(s.events)]
              t == [s EXCEPT !.events = SubSeq(s.events, 1, Len(s.events) - 1),
                             !.taken = s.taken + 1]
          IN IF e.kind = "Disconnected"
             THEN /\ gatt_log' =
                        <<LogLine("disconnected", NoHandle, <<>>),
                          LogLine("task finished", NoHandle, <<>>)>>
                  /\ poll_select(c, [t EXCEPT !.gatt_pc = "finished"])
             ELSE /\ gatt_log' = <<>>
                  /\ poll_select(c, [t EXCEPT !.gatt_pc = "process", !.data = e])
    /\ UNCHANGED <<process, panic, runner, name_len, next_conn, level, status>>

\* gatt_events_task: conn.next().await yields the next event of the stream.
\* Disconnected: log and break, then "task finished" and Ok(()).
\* Gatt: go on to data.process(server).await.
gatt_next(c) ==
    /\ process = "running"
    /\ c \in DOMAIN session
    /\ LET s == session[c] IN
       /\ s.gatt_pc = "next"
       /\ s.events # <<>>
       /\ LET e == Head(s.events)
              t == [s EXCEPT !.events = Tail(s.events), !.taken = s.taken + 1]
          IN IF e.kind = "Disconnected"
             THEN /\ gatt_log' =
                        <<LogLine("disconnected", NoHandle, <<>>),
                          LogLine("task finished", NoHandle, <<>>)>>
                  /\ poll_select(c, [t EXCEPT !.gatt_pc = "finished"])
             ELSE /\ gatt_log' = <<>>
                  /\ poll_select(c, [t EXCEPT !.gatt_pc = "process", !.data = e])
    /\ UNCHANGED <<process, panic, runner, name_len, next_conn, level, status>>

\* The lines the match on the result of data.process(server) logs.
gatt_dispatch(ev) ==
    IF ev.kind = "Read" /\ ev.handle = LevelHandle
    THEN <<LogLine("Read Event to Level Characteristic", ev.handle, <<>>)>>
    ELSE IF ev.kind = "Write" /\ ev.handle = LevelHandle
    THEN <<LogLine("Write Event to Level Characteristic", ev.handle, ev.data)>>
    ELSE IF ev.kind = "Error"
    THEN <<LogLine("error processing event", NoHandle, <<>>)>>
    ELSE <<>>

\* Mutant of gatt_after: the Err arm breaks out of the loop.
gatt_after_err_break(ev) == IF ev.kind = "Error" THEN "finished" ELSE "next"

\* Where gatt_events_task goes after the match on ev: every arm falls through
\* to the next iteration of the loop.
gatt_after(ev) == "next"

\* Mutant of gatt_process: the handler copies a written byte into level.
gatt_process_sets_level(c, ev) ==
    /\ process = "running"
    /\ c \in DOMAIN session
    /\ LET s == session[c] IN
       /\ s.gatt_pc = "process"
       /\ status' = IF ev.kind = "Write" /\ ev.handle = StatusHandle
                    THEN ev.data = <<1>>
                    ELSE status
       /\ level' = IF ev.kind = "Write" THEN ev.data[1] ELSE level
       /\ gatt_log' = gatt_dispatch(ev)
       /\ poll_select(c, [s EXCEPT !.gatt_pc = gatt_after(ev), !.data = NoEvent,
                                   !.event = ev])
    /\ UNCHANGED <<process, panic, runner, name_len, next_conn>>

\* data.process(server).await completes with ev; the server has applied a
\* write to the attribute table by then.
gatt_process(c, ev) ==
    /\ process = "running"
    /\ c \in DOMAIN session
    /\ LET s == session[c] IN
       /\ s.gatt_pc = "process"
       /\ status' = IF ev.kind = "Write" /\ ev.handle = StatusHandle
                    THEN ev.data = <<1>>
                    ELSE status
       /\ gatt_log' = gatt_dispatch(ev)
       /\ poll_select(c, [s EXCEPT !.gatt_pc = gatt_after(ev), !.data = NoEvent,
                                   !.event = ev])
    /\ UNCHANGED <<process, panic, runner, name_len, next_conn, level>>

----------------------------------------------------------------------------
\* custom_task: level.notify(server, conn, &tick).await completes.
custom_notify(c, ok) ==
    /\ process = "running"
    /\ c \in DOMAIN session
    /\ LET s == session[c] IN
       /\ s.custom_pc = "notify"
       /\ poll_select(c, [s EXCEPT !.custom_pc =
                                   IF ok THEN "rssi" ELSE "notify_failed"])
    /\ UNCHANGED <<process, panic, runner, name_len, next_conn, level, status,
                   gatt_log>>

\* Mutant of custom_rssi: the loop goes on without the 2-second wait.
custom_rssi_nowait(c, ok) ==
    /\ process = "running"
    /\ c \in DOMAIN session
    /\ LET s == session[c] IN
       /\ s.custom_pc = "rssi"
       /\ poll_select(c, IF ok
                         THEN [s EXCEPT !.custom_pc = "timer", !.timer = 0]
                         ELSE [s EXCEPT !.custom_pc = "rssi_failed"])
    /\ UNCHANGED <<process, panic, runner, name_len, next_conn, level, status,
                   gatt_log>>

\* custom_task: conn.rssi(stack).await completes; on Ok the timer is armed.
custom_rssi(c, ok) ==
    /\ process = "running"
    /\ c \in DOMAIN session
    /\ LET s == session[c] IN
       /\ s.custom_pc = "rssi"
       /\ poll_select(c, IF ok
                         THEN [s EXCEPT !.custom_pc = "timer", !.timer = TIMER_SECS]
                         ELSE [s EXCEPT !.custom_pc = "rssi_failed"])
    /\ UNCHANGED <<process, panic, runner, name_len, next_conn, level, status,
                   gatt_log>>

\* custom_task: Timer::after_secs(2).await completes; the loop runs on to the
\* next push.
custom_timer(c) ==
    /\ process = "running"
    /\ c \in DOMAIN session
    /\ LET s == session[c] IN
       /\ s.custom_pc = "timer"
       /\ s.timer = 0
       /\ s.pushes < MaxPushes
       /\ level' = custom_loop_head(s).tick
       /\ poll_select(c, custom_loop_head(s))
    /\ UNCHANGED <<process, panic, runner, name_len, next_conn, status, gatt_log>>

----------------------------------------------------------------------------
\* Environment: one second passes for the timer of connection c.
time_advance(c) ==
    /\ process = "running"
    /\ c \in DOMAIN session
    /\ session[c].custom_pc = "timer"
    /\ session[c].timer > 0
    /\ session' = [session EXCEPT ![c].timer = @ - 1]
    /\ UNCHANGED <<process, panic, main_pc, runner, name_len, next_conn, last_end,
                   level, status, gatt_log>>

\* Environment: a request of the central arrives on the stream of c.
remote_request(c) ==
    /\ process = "running"
    /\ c \in DOMAIN session
    /\ LET s == session[c]
           n == s.taken + Len(s.events)
       IN /\ s.link_up
          /\ n < MaxEvents
          /\ session' = [session EXCEPT ![c].events =
                             Append(@, ConnectionEvent(c, n + 1, "Gatt"))]
    /\ UNCHANGED <<process, panic, main_pc, runner, name_len, next_conn, last_end,
                   level, status, gatt_log>>

\* Environment: the link of c goes down; Disconnected is the last event of
\* the stream.
remote_disconnect(c) ==
    /\ process = "running"
    /\ c \in DOMAIN session
    /\ LET s == session[c]
           n == s.taken + Len(s.events)
       IN /\ s.link_up
          /\ session' = [session EXCEPT
                             ![c].events = Append(@, ConnectionEvent(c, n + 1, "Disconnected")),
                             ![c].link_up = FALSE]
    /\ UNCHANGED <<process, panic, main_pc, runner, name_len, next_conn, last_end,
                   level, status, gatt_log>>

----------------------------------------------------------------------------
\* Mutant of ble_task: the end of the runner is not waited for.
ble_task_detached(res) ==
    /\ process = "running"
    /\ runner = "running"
    /\ runner' = res
    /\ UNCHANGED <<process, panic, main_pc, name_len, next_conn, session, last_end,
                   level, status, gatt_log>>

\* ble_task: runner.run().await returns res; select(ble_task(runner), app_task)
\* is ready, app_task is dropped where it stands (with conn, a and b), run
\* returns and main returns.
ble_task(res) ==
    /\ process = "running"
    /\ runner = "running"
    /\ runner' = res
    /\ process' = "returned"
    /\ session' = NoSession
    /\ UNCHANGED <<panic, main_pc, name_len, next_conn, last_end, level, status,
                   gatt_log>>

----------------------------------------------------------------------------
Conns == 1..(MaxConns + 1)

Next ==
    \/ \E ok \in BOOLEAN : main_init(ok)
    \/ \E ok \in BOOLEAN : run_setup(ok)
    \/ advertise_encode
    \/ \E ok \in BOOLEAN : advertise_start(ok)
    \/ \E ok \in BOOLEAN : accept(ok)
    \/ \E c \in Conns : gatt_next(c)
    \/ \E c \in Conns, ev \in GattEvents : gatt_process(c, ev)
    \/ \E c \in Conns, ok \in BOOLEAN : custom_notify(c, ok)
    \/ \E c \in Conns, ok \in BOOLEAN : custom_rssi(c, ok)
    \/ \E c \in Conns : custom_timer(c)
    \/ \E c \in Conns : time_advance(c)
    \/ \E c \in Conns : remote_request(c)
    \/ \E c \in Conns : remote_disconnect(c)
    \/ \E res \in {"Ok", "Err"} : ble_task(res)

Spec == Init /\ [][Next]_vars

SpecName == InitName /\ [][Next]_vars

\* The program up to the wait for a central, for every length of name.
NextEncode ==
    \/ \E ok \in BOOLEAN : main_init(ok)
    \/ \E ok \in BOOLEAN : run_setup(ok)
    \/ advertise_encode
    \/ \E ok \in BOOLEAN : advertise_start(ok)
    \/ \E res \in {"Ok", "Err"} : ble_task(res)

SpecEncode == InitAnyName /\ [][NextEncode]_vars

\* The executor polls app_task whenever it can run: its loop, once back at
\* the call of advertise, does make that call. The runs are those in which a
\* connection sees at most MaxFairPushes pushes.
NextFair ==
    \/ \E ok \in BOOLEAN : main_init(ok)
    \/ \E ok \in BOOLEAN : run_setup(ok)
    \/ advertise_encode
    \/ \E ok \in BOOLEAN : advertise_start(ok)
    \/ \E ok \in BOOLEAN : accept(ok)
    \/ \E c \in Conns : gatt_next(c)
    \/ \E c \in Conns, ev \in GattEvents : gatt_process(c, ev)
    \/ \E c \in Conns, ok \in BOOLEAN : custom_notify(c, ok)
    \/ \E c \in Conns, ok \in BOOLEAN : custom_rssi(c, ok)
    \/ \E c \in Conns : custom_timer(c) /\ session[c].pushes < MaxFairPushes
    \/ \E c \in Conns : time_advance(c)
    \/ \E c \in Conns : remote_request(c)
    \/ \E c \in Conns : remote_disconnect(c)
    \/ \E res \in {"Ok", "Err"} : ble_task(res)

SpecFair == Init /\ [][NextFair]_vars /\ WF_vars(advertise_encode)

----------------------------------------------------------------------------
\* Shorthands of the properties below.
Advertising == {"advertise", "adv_start", "accept"}
NotifierFailures == {"notify_failed", "rssi_failed"}
EndCauses == {"disconnected"} \cup NotifierFailures
Live == DOMAIN session
\* The race of connection c resolves in this step.
Resolves(c) == last_end'.conn = c /\ last_end.conn # c

\* C1: in every reachable state the number of active Sessions (accepted
\* connections whose select(a, b) has not returned) is at most CONNECTIONS_MAX = 1.
AtMostOneSession == Cardinality(Live) <= CONNECTIONS_MAX

\* A second connection is being served, after the first one ended.
SecondSessionActive == next_conn = 2 /\ Cardinality(Live) = 1

\* C2: while app_task is anywhere in advertise no gatt_events_task or
\* custom_task of an earlier connection is alive, and a connection is accepted
\* only when the select of the previous one has returned.
NoAdvertiseDuringSession ==
    /\ [](main_pc \in Advertising /\ process = "running" => Live = {})
    /\ [][next_conn' # next_conn =>
            /\ Live = {}
            /\ main_pc = "accept"
            /\ next_conn # 0 => last_end.conn = next_conn]_vars

\* Advertising is under way again after the first connection ended.
ReadvertisingAfterSession ==
    main_pc = "accept" /\ last_end.conn = 1 /\ process = "running"

\* C3: a Session ends at the first exit of gatt_events_task or custom_task:
\* no live connection has an exited task, the exit of one task removes the
\* connection whatever await the other one is at, and while the race stays
\* resolved nothing is pushed, handled or logged.
RaceAbandonsLoser ==
    /\ [](\A c \in Live : ~Finished(session[c]) /\ ~Exited(session[c]))
    /\ [](last_end.conn # 0 => Live = {} /\ last_end.cause \in EndCauses)
    /\ [][\A c \in Live :
            (session[c].events # <<>> /\ session[c].gatt_pc = "next"
               /\ Head(session[c].events).kind = "Disconnected"
               /\ c \in DOMAIN session' /\ process' = "running")
            => session'[c].taken = session[c].taken]_vars
    /\ [][(last_end.conn # 0 /\ last_end' = last_end)
            => UNCHANGED <<level, status, gatt_log, session>>]_vars

\* Disconnected ended a Session whose custom_task was in its 2-second wait.
DisconnectedDuringWait ==
    last_end.cause = "disconnected" /\ last_end.loser_pc = "timer"

\* C4: when custom_task exits with events still pending on the stream, the
\* Session ends and no gatt_events_task ever holds them: the events a
\* connection's task has pending or in hand are events of that connection.
PendingEventsNeverProcessed ==
    /\ (last_end.cause \in NotifierFailures => last_end.conn \notin Live)
    /\ \A c \in Live :
         /\ \A i \in DOMAIN session[c].events : session[c].events[i].conn = c
         /\ session[c].data # NoEvent => session[c].data.conn = c

\* custom_task failed while events were pending.
NotifierFailedWithPending ==
    last_end.cause \in NotifierFailures /\ last_end.lost > 0

\* C5 (Scenario B): a connection on which the central writes 1 to status and
\* then disconnects: gatt_events_task logs a Write line with the handle of
\* status and data [1] for the first event, then the Disconnected lines, and
\* app_task is back at advertise.
StatusWrite1 == [kind |-> "Write", handle |-> StatusHandle, data |-> <<1>>]

ScenarioBLogsStatusWrite ==
    /\ \A c \in Live :
         (session[c].taken = 1 /\ session[c].gatt_pc = "next"
            /\ session[c].event = StatusWrite1)
         => \E i \in DOMAIN gatt_log :
               /\ gatt_log[i].handle = StatusHandle
               /\ gatt_log[i].data = <<1>>
    /\ (last_end.cause = "disconnected" /\ last_end.taken = 2
          /\ last_end.event = StatusWrite1)
       => /\ gatt_log = <<LogLine("disconnected", NoHandle, <<>>),
                          LogLine("task finished", NoHandle, <<>>)>>
          /\ last_end.conn \notin Live
          /\ process = "running" => main_pc \in Advertising

\* C6: gatt_events_task finishes if and only if the event it takes is
\* Disconnected; a Gatt event, whatever data.process(server) makes of it,
\* leaves the task at conn.next() again and never ends the Session or the
\* process.
\* The task of c takes the head of its stream in this step.
Takes(c) ==
    \/ c \in DOMAIN session' /\ session'[c].taken = session[c].taken + 1
    \/ Resolves(c) /\ last_end'.taken = session[c].taken + 1

DispatcherEndsOnlyOnDisconnected ==
    /\ [][\A c \in Live :
            /\ (Resolves(c) /\ last_end'.cause = "disconnected")
               => /\ session[c].gatt_pc = "next"
                  /\ session[c].events # <<>>
                  /\ Head(session[c].events).kind = "Disconnected"
            /\ Takes(c)
               => (Head(session[c].events).kind = "Disconnected"
                     <=> (Resolves(c) /\ last_end'.cause = "disconnected"))
            /\ (session[c].gatt_pc = "process" /\ c \in DOMAIN session'
                  /\ session'[c].gatt_pc # "process")
               => /\ session'[c].gatt_pc = "next"
                  /\ session'[c].event \in GattEvents
                  /\ session'[c].taken = session[c].taken
                  /\ session'[c].events = session[c].events
                  /\ process' = "running"]_vars
    /\ [](\A c \in Live : session[c].gatt_pc \in {"next", "process"})

\* A processing error has been logged and the task awaits the next event.
ErrorEventSurvived ==
    \E c \in Live :
        /\ session[c].event.kind = "Error"
        /\ session[c].gatt_pc = "next"
        /\ gatt_log = <<LogLine("error processing event", NoHandle, <<>>)>>

\* C7: a Disconnected event, a failed push and a failed RSSI read each end
\* only the current Session: the process keeps running and app_task is at
\* advertise again. After startup the process panics only out of advertise.
SessionEndIsNotFatal ==
    /\ [][\A c \in Live : Resolves(c) =>
            /\ last_end'.cause \in EndCauses
            /\ process' = "running"
            /\ panic' = "none"
            /\ main_pc' = "advertise"]_vars
    /\ [][(process = "running" /\ process' = "panicked"
             /\ main_pc \notin {"init", "server"})
            => /\ main_pc \in Advertising
               /\ Live = {}
               /\ panic' \in {"[adv] error: Encoding", "[adv] error: Host"}]_vars
    /\ [](last_end.conn # 0 /\ process = "running"
            => main_pc \in Advertising /\ panic = "none")

\* After a failed RSSI read the device is waiting for the next central.
AdvertisingAfterRssiFailure ==
    /\ last_end.cause = "rssi_failed"
    /\ main_pc = "accept"
    /\ process = "running"

\* C8: an error returned by advertise panics the process, which then takes
\* no further step: no retry, no Session. An encoding error panics before
\* peripheral.advertise is called and before any connection was accepted.
AdvertiseErrorIsFatal ==
    /\ [](panic = "[adv] error: Encoding"
            => /\ process = "panicked"
               /\ ~EncodeOk(name_len)
               /\ main_pc = "advertise"
               /\ next_conn = 0)
    /\ [](~EncodeOk(name_len)
            => main_pc \in {"init", "server", "advertise"} /\ next_conn = 0)
    /\ [](panic = "[adv] error: Host"
            => /\ process = "panicked"
               /\ main_pc \in {"adv_start", "accept"}
               /\ Live = {})
    /\ [][(main_pc \in {"adv_start", "accept"}) => (main_pc' # "advertise")]_vars
    /\ [][process = "panicked" => UNCHANGED vars]_vars

\* The oversized name made encode_slice fail and the process panicked.
EncodingPanic ==
    /\ process = "panicked"
    /\ panic = "[adv] error: Encoding"
    /\ name_len = OversizeName

\* C9 as stated: the end of ble_task aborts the process.
RunnerEnded == runner \in {"Ok", "Err"}

NoCentralNoSession ==
    /\ []((next_conn = 0 /\ process = "running" /\ main_pc \notin {"init", "server"})
            => /\ main_pc \in Advertising
               /\ Live = {}
               /\ last_end = NoEnd
               /\ level = 0
               /\ status = FALSE
               /\ gatt_log = <<>>
               /\ runner = "running")
    /\ [][(main_pc = "accept" /\ next_conn' = next_conn /\ process' = "running")
            => main_pc' = "accept"]_vars

\* The device is waiting in accept, no central has ever connected.
WaitingForFirstCentral ==
    /\ main_pc = "accept"
    /\ next_conn = 0
    /\ runner = "running"
    /\ process = "running"

\* C11: when a Session has ended and the runner is still running, app_task
\* eventually calls advertise again (weak fairness of the loop); the step
\* that resolves the race leaves app_task at the call of advertise, and the
\* only step app_task takes from there is that call.
LoopRestartsAdvertising ==
    /\ [][\A c \in Live : Resolves(c) => main_pc' = "advertise"]_vars
    /\ [][(main_pc = "advertise" /\ main_pc' # main_pc) => main_pc' = "adv_start"]_vars
    /\ (last_end.conn # 0 /\ main_pc = "advertise" /\ process = "running")
          ~> (main_pc = "adv_start" \/ RunnerEnded)

\* A new advertising cycle has started after a Session ended by a failed push.
CycleStartedAfterSession ==
    /\ last_end.cause = "notify_failed"
    /\ main_pc = "adv_start"
    /\ process = "running"

\* C12: gatt_events_task handles the events of its connection in arrival
\* order, one at a time: the event it takes is the oldest one not yet taken
\* (its number is one more than the number taken so far), it takes one only
\* when the handling of the previous one is complete, and the events still
\* pending are the later ones, in order; so none is handled twice.
EventsInArrivalOrder ==
    /\ [](\A c \in Live :
            LET s == session[c] IN
            /\ \A i \in DOMAIN s.events :
                 s.events[i].seq = s.taken + i /\ s.events[i].conn = c
            /\ (s.gatt_pc = "process") <=> (s.data # NoEvent)
            /\ s.data # NoEvent => (s.data.seq = s.taken /\ s.data.kind = "Gatt"))
    /\ [][\A c \in Live : Takes(c) =>
            /\ session[c].gatt_pc = "next"
            /\ session[c].data = NoEvent
            /\ Head(session[c].events).seq = session[c].taken + 1
            /\ c \in DOMAIN session' =>
                 /\ session'[c].data = Head(session[c].events)
                 /\ session'[c].events = Tail(session[c].events)]_vars
    /\ [][\A c \in Live :
            (c \in DOMAIN session' /\ session[c].gatt_pc = "process")
            => /\ session'[c].taken = session[c].taken
               /\ session'[c].data \in {session[c].data, NoEvent}]_vars

\* The second request is being handled, the first one is done and a third
\* event is waiting.
SecondEventInHand ==
    \E c \in Live :
        /\ session[c].taken = 2
        /\ session[c].gatt_pc = "process"
        /\ session[c].event # NoGattEvent
        /\ session[c].events # <<>>

\* C13: tick is an 8-bit counter that starts at 0 and is incremented modulo
\* 256 before each push: it always is the number of pushes of the Session
\* modulo 256, so it is 0 again with the 256th push, and it never leaves 0..255.
TickWrapsAt256 ==
    /\ [](\A c \in Live :
            /\ session[c].tick \in 0..(U8_MOD - 1)
            /\ session[c].tick = session[c].pushes % U8_MOD
            /\ session[c].pushes = U8_MOD => session[c].tick = 0)
    /\ [][\A c \in Live :
            (c \in DOMAIN session' /\ session'[c].tick # session[c].tick)
            => /\ session'[c].tick = (session[c].tick + 1) % U8_MOD
               /\ session'[c].pushes = session[c].pushes + 1]_vars

\* The 256th push of a Session has succeeded and tick is 0.
TickBackAtZero ==
    \E c \in Live :
        /\ session[c].pushes = U8_MOD
        /\ session[c].tick = 0
        /\ session[c].custom_pc = "rssi"

\* C14 (Scenario C): in every Session, whatever came before, the k-th push
\* carries k mod 256 and is the value of level; the first push is issued as
\* the connection is accepted; custom_task goes push, sample, 2-second wait,
\* push, ..: a sample follows a successful push only, the wait of TIMER_SECS
\* follows a successful sample only, and the next push follows the end of
\* that wait only. A failed push ends the Session from the push itself.
\* custom_task of c moves from position p to position q in this step.
Moves(c, p, q) ==
    /\ c \in DOMAIN session'
    /\ session[c].custom_pc = p
    /\ session'[c].custom_pc = q

PushSequence ==
    /\ [](\A c \in Live :
            /\ session[c].pushes >= 1
            /\ session[c].tick = session[c].pushes % U8_MOD
            /\ level = session[c].tick
            /\ session[c].custom_pc \in {"notify", "rssi", "timer"}
            /\ session[c].timer \in 0..TIMER_SECS)
    /\ [][next_conn' # next_conn =>
            /\ next_conn' \in DOMAIN session'
            /\ session'[next_conn'].pushes = 1
            /\ session'[next_conn'].custom_pc = "notify"
            /\ level' = 1]_vars
    /\ [][\A c \in Live : c \in DOMAIN session' =>
            /\ session'[c].custom_pc # session[c].custom_pc
               => \/ Moves(c, "notify", "rssi")
                  \/ Moves(c, "rssi", "timer") /\ session'[c].timer = TIMER_SECS
                  \/ Moves(c, "timer", "notify") /\ session[c].timer = 0
            /\ session'[c].pushes # session[c].pushes
               => /\ Moves(c, "timer", "notify")
                  /\ session'[c].pushes = session[c].pushes + 1
            /\ Moves(c, "timer", "notify")
               => session'[c].pushes = session[c].pushes + 1
            /\ (session'[c].timer # session[c].timer /\ ~Moves(c, "rssi", "timer"))
               => /\ session[c].custom_pc = "timer"
                  /\ session'[c].custom_pc = "timer"
                  /\ session'[c].timer = session[c].timer - 1]_vars
    /\ [][\A c \in Live :
            /\ (Resolves(c) /\ last_end'.cause = "notify_failed")
               => session[c].custom_pc = "notify"
            /\ (Resolves(c) /\ last_end'.cause = "rssi_failed")
               => session[c].custom_pc = "rssi"]_vars

\* The second connection is at its third push, which carries 3.
ThirdPushOfSecondSession ==
    /\ 2 \in Live
    /\ session[2].pushes = 3
    /\ session[2].custom_pc = "notify"
    /\ level = 3

\* C15: a Session ends, while the process runs, only in a step in which
\* gatt_events_task takes a Disconnected event or in which the push or the
\* RSSI read custom_task awaits completes; custom_task never ends a Session
\* from any other position.
NoSpuriousSessionEnd ==
    /\ [][\A c \in Live : c \notin DOMAIN session' =>
            \/ process' = "returned"
            \/ /\ Resolves(c)
               /\ \/ /\ last_end'.cause = "disconnected"
                     /\ session[c].gatt_pc = "next"
                     /\ session[c].events # <<>>
                     /\ Head(session[c].events).kind = "Disconnected"
                     /\ last_end'.loser_pc = session[c].custom_pc
                  \/ /\ last_end'.cause = "notify_failed"
                     /\ session[c].custom_pc = "notify"
                     /\ last_end'.loser_pc = session[c].gatt_pc
                  \/ /\ last_end'.cause = "rssi_failed"
                     /\ session[c].custom_pc = "rssi"
                     /\ last_end'.loser_pc = session[c].gatt_pc]_vars
    /\ [](last_end.conn # 0 => last_end.cause \in EndCauses)

\* A failed push ended the Session while an event was being processed.
PushFailureEndedSession ==
    /\ last_end.cause = "notify_failed"
    /\ last_end.loser_pc = "process"

\* C16: level changes only with a push of custom_task (and then is tick),
\* status only when data.process(server) resolves a write to status (and then
\* is the byte written). A step of gatt_events_task leaves level and the
\* tick of custom_task alone, a step of custom_task leaves status alone.
\* gatt_events_task of c steps.
GattStep(c) ==
    \/ Takes(c)
    \/ /\ c \in DOMAIN session'
       /\ session[c].gatt_pc = "process"
       /\ session'[c].gatt_pc # "process"
\* custom_task of c steps.
CustomStep(c) ==
    \/ /\ c \in DOMAIN session'
       /\ \/ session'[c].custom_pc # session[c].custom_pc
          \/ session'[c].pushes # session[c].pushes
    \/ Resolves(c) /\ last_end'.cause \in NotifierFailures

SingleWriterPerAttribute ==
    /\ [][level' # level =>
            \/ /\ next_conn' # next_conn
               /\ level' = session'[next_conn'].tick
            \/ \E c \in Live :
                 /\ Moves(c, "timer", "notify")
                 /\ level' = session'[c].tick]_vars
    /\ [][status' # status =>
            \E c \in Live :
                 /\ c \in DOMAIN session'
                 /\ session[c].gatt_pc = "process"
                 /\ session'[c].event.kind = "Write"
                 /\ session'[c].event.handle = StatusHandle
                 /\ status' = (session'[c].event.data = <<1>>)]_vars
    /\ [][\A c \in Live : GattStep(c) =>
            /\ level' = level
            /\ c \in DOMAIN session' =>
                 /\ session'[c].tick = session[c].tick
                 /\ session'[c].pushes = session[c].pushes
                 /\ session'[c].custom_pc = session[c].custom_pc
                 /\ session'[c].timer = session[c].timer]_vars
    /\ [][\A c \in Live : CustomStep(c) => status' = status]_vars

\* A write of 1 to status has been handled between two pushes: status is set
\* and level still is the tick pushed last.
StatusWrittenLevelKept ==
    \E c \in Live :
        /\ session[c].event = StatusWrite1
        /\ status = TRUE
        /\ session[c].pushes = 2
        /\ level = 2

\* C17 as stated: every value pushed on level is within the valid range the
\* attribute declares, 0 to 100.
VALID_RANGE_MAX == 100

PushedValueInValidRange ==
    \A c \in Live : session[c].tick <= VALID_RANGE_MAX /\ level <= VALID_RANGE_MAX

\* C18: the payload advertise builds for "Trouble Example" (15 bytes) takes
\* 3 + 4 + 2 + 15 = 24 of the 31 bytes of the buffer, so with that name
\* encode_slice succeeds and the process never panics with an encoding
\* error; the encoding fails exactly for names of more than 22 bytes.
EncodingFitsUpTo22Bytes ==
    /\ [](EncodedLen(LOCAL_NAME_LEN) = 24 /\ EncodedLen(LOCAL_NAME_LEN) <= ADV_DATA_LEN)
    /\ [](name_len = LOCAL_NAME_LEN => panic # "[adv] error: Encoding")
    /\ [](panic = "[adv] error: Encoding" => name_len > 22)
    /\ [](main_pc \in {"adv_start", "accept"} => name_len <= 22)
    /\ [][(main_pc = "advertise" /\ process = "running" /\ process' = "panicked")
            => (name_len > 22 /\ panic' = "[adv] error: Encoding")]_vars
    /\ [][(main_pc = "advertise" /\ main_pc' # main_pc)
            => (name_len <= 22 /\ main_pc' = "adv_start")]_vars

\* With the name the program passes, advertise got past the encoding and is
\* waiting for a central.
RealNameAdvertised ==
    /\ name_len = LOCAL_NAME_LEN
    /\ main_pc = "accept"
    /\ process = "running"

====
